---- MODULE Spec2Model ----
(***************************************************************************)
(* Model of pdrs4all/postprocess/spectral_segments.py: sorting spectral    *)
(* segments, finding their overlap ranges, building the unified wavelength *)
(* grid and merging (merge_nd_memfriendly, merge_1d), and shifts_to_offsets*)
(*                                                                         *)
(* Array abstraction.  Wavelengths are integers.  Flux and uncertainty     *)
(* samples are integers on input; every computed value is an exact         *)
(* rational <<n, d>> in lowest terms (d > 0), NaN is <<0, 0>>.  Arrays are  *)
(* followed along the wavelength axis for one spatial pixel; the spatial   *)
(* shape of a segment is kept as the pair `shape` and only decides whether *)
(* an assignment into the output buffer broadcasts.  numpy's broadcasting  *)
(* of the sliding weight against the left and right arrays is applied      *)
(* along the wavelength axis.  An exception ends the call: the result then *)
(* has status "error" and no data.                                         *)
(***************************************************************************)
EXTENDS Integers, Sequences, FiniteSets, TLC

VARIABLES call, input, pc, ss, overlap_ranges, result_nd, result_1d,
          shifts, reference_segment_index, offsets, ratios

vars == <<call, input, pc, ss, overlap_ranges, result_nd, result_1d,
          shifts, reference_segment_index, offsets, ratios>>

\* ---------------------------------------------------------------- bounds
MaxWav == 5

MaxSegs == 3

MaxShifts == 3

\* most wavelength samples in one input list, over all its segments
MaxSamples == 8

\* inputs in any order, for the sort
MaxOrdWav == 4

MaxOrdSegs == 3

MaxOrdSamples == 6

\* inputs outside the contract of the merge
MaxErrWav == 3

MaxErrSegs == 2

MaxErrSamples == 4

\* ------------------------------------------------------------- rationals
Abs(n) == IF n < 0 THEN -n ELSE n

RECURSIVE GCD(_, _)
GCD(a, b) == IF b = 0 THEN a ELSE GCD(b, a % b)

NaN == <<0, 0>>

IsNaN(q) == q[2] = 0

Norm(n, d) ==
    IF d = 0 THEN NaN
    ELSE LET s == IF d < 0 THEN -1 ELSE 1
             g == GCD(Abs(n), Abs(d))
         IN  <<(s * n) \div g, (s * d) \div g>>

R(n) == <<n, 1>>

RAdd(p, q) == IF IsNaN(p) \/ IsNaN(q) THEN NaN
              ELSE Norm(p[1] * q[2] + q[1] * p[2], p[2] * q[2])

RSub(p, q) == IF IsNaN(p) \/ IsNaN(q) THEN NaN
              ELSE Norm(p[1] * q[2] - q[1] * p[2], p[2] * q[2])

RMul(p, q) == IF IsNaN(p) \/ IsNaN(q) THEN NaN
              ELSE Norm(p[1] * q[1], p[2] * q[2])

RDiv(p, q) == IF IsNaN(p) \/ IsNaN(q) THEN NaN
              ELSE Norm(p[1] * q[2], p[2] * q[1])

RLess(p, q) == p[1] * q[2] < q[1] * p[2]

\* np.square
Square(q) == RMul(q, q)

\* np.sqrt of a non-negative rational: the exact root when numerator and
\* denominator are perfect squares, otherwise the irrational root of n/d is
\* written <<n, -d>> (a negative denominator marks "root of"); NaN stays NaN.
Sqrt(q) ==
    IF IsNaN(q) THEN NaN
    ELSE IF \E a \in 0..q[1] : \E b \in 1..q[2] : a * a = q[1] /\ b * b = q[2]
         THEN LET a == CHOOSE x \in 0..q[1] : x * x = q[1]
                  b == CHOOSE x \in 1..q[2] : x * x = q[2]
              IN  <<a, b>>
         ELSE <<q[1], -q[2]>>

\* ------------------------------------------------------- sequence helpers
RECURSIVE Concat(_)
Concat(seqs) == IF seqs = <<>> THEN <<>> ELSE Head(seqs) \o Concat(Tail(seqs))

\* stable insertion of the pair x = <<key, value>> into the sequence s of
\* pairs sorted by key: x goes after the entries with an equal key
RECURSIVE Insert(_, _)
Insert(x, s) ==
    IF s = <<>> THEN <<x>>
    ELSE IF x[1] < Head(s)[1] THEN <<x>> \o s
         ELSE <<Head(s)>> \o Insert(x, Tail(s))

\* stable sort of a sequence of <<key, value>> pairs by key
RECURSIVE SortPairs(_)
SortPairs(s) ==
    IF s = <<>> THEN <<>>
    ELSE Insert(s[Len(s)], SortPairs(SubSeq(s, 1, Len(s) - 1)))

\* np.sort of a 1-D array of wavelengths
NpSort(s) ==
    LET p == SortPairs([i \in 1..Len(s) |-> <<s[i], s[i]>>])
    IN  [i \in 1..Len(s) |-> p[i][2]]

\* values of a under the boolean mask m (numpy boolean indexing)
RECURSIVE Take(_, _)
Take(a, m) ==
    IF a = <<>> THEN <<>>
    ELSE (IF Head(m) THEN <<Head(a)>> ELSE <<>>) \o Take(Tail(a), Tail(m))

Count(m, i) == Cardinality({j \in 1..i : m[j]})

\* a[m] = v (numpy boolean-mask assignment, v has one value per TRUE)
Put(a, m, v) == [i \in 1..Len(a) |-> IF m[i] THEN v[Count(m, i)] ELSE a[i]]

First(s) == s[1]

Last(s) == s[Len(s)]

\* ---------------------------------------------------------------- segments
\* A segment (specutils Spectrum): spectral_axis, flux, uncertainty along the
\* wavelength axis, the spatial shape <<ny, nx>>, and whether its meta holds
\* a "header" entry.
RECURSIVE SetToSeq(_)
SetToSeq(S) ==
    IF S = {} THEN <<>>
    ELSE LET m == CHOOSE x \in S : \A y \in S : x <= y
         IN  <<m>> \o SetToSeq(S \ {m})

\* flux and uncertainty samples of the segment with wavelength axis a: they
\* vary non-linearly along the axis and differ between segments
FluxOf(a) == [i \in 1..Len(a) |-> a[i] * a[i] + 3 * a[1] + 5 * Len(a)]

UncOf(a) == [i \in 1..Len(a) |-> a[i] + Len(a) - 2]

MkSeg(a, shp, hdr) ==
    [spectral_axis |-> a, flux |-> FluxOf(a), uncertainty |-> UncOf(a),
     shape |-> shp, header |-> hdr]

\* strictly ascending axes over 1..w with at least two samples (interp1d
\* needs two)
Axes(w) == {SetToSeq(S) : S \in {T \in SUBSET (1..w) : Cardinality(T) >= 2}}

Segments(w) == {MkSeg(a, <<1, 1>>, FALSE) : a \in Axes(w)}

RECURSIVE SeqsUpTo(_, _)
SeqsUpTo(S, n) ==
    IF n = 0 THEN {<<>>}
    ELSE LET P == SeqsUpTo(S, n - 1)
         IN  P \cup {Append(q, x) : q \in {r \in P : Len(r) = n - 1}, x \in S}

RECURSIVE Samples(_)
Samples(segs) ==
    IF segs = <<>> THEN 0
    ELSE Len(Head(segs).spectral_axis) + Samples(Tail(segs))

\* the lists of at most n segments of S with at most cap wavelength samples
\* in all; with ordered, only the lists already in wavelength order (first
\* wavelengths ascending)
RECURSIVE InputLists(_, _, _, _)
InputLists(S, n, cap, ordered) ==
    IF n = 0 THEN {<<>>}
    ELSE LET P == InputLists(S, n - 1, cap, ordered)
             Q == {qx \in {r \in P : Len(r) = n - 1} \X S :
                      /\ Samples(qx[1]) + Len(qx[2].spectral_axis) <= cap
                      /\ ordered /\ qx[1] # <<>> =>
                            qx[1][Len(qx[1])].spectral_axis[1] <= qx[2].spectral_axis[1]}
         IN  P \cup {Append(qx[1], qx[2]) : qx \in Q}

StrictlyAscending(a) == \A i \in 1..(Len(a) - 1) : a[i] < a[i + 1]

\* ------------------------------------------------------------------- sort
\* sorted(ss, key=lambda x: x.spectral_axis.value[0]); Python's sort is
\* stable, so segments with an equal first wavelength keep their input order
\* faulty variant of sort: the list is left in its input order
sort_unordered(segs) == segs

sort(segs) ==
    LET p == SortPairs([i \in 1..Len(segs) |-> <<segs[i].spectral_axis[1], segs[i]>>])
    IN  [i \in 1..Len(segs) |-> p[i][2]]

\* ---------------------------------------------------- find_overlap_ranges
\* faulty variant of the test of line 51: touching segments count as overlap
Overlaps_or_touches(v1, v2) == v2 >= v1

\* the test of line 51
Overlaps(v1, v2) == v2 > v1

RECURSIVE OverlapLoop(_, _, _)
OverlapLoop(segs, i, acc) ==
    IF i > Len(segs) THEN acc
    ELSE LET pr == segs[i - 1]
             cr == segs[i]
             v1 == First(cr.spectral_axis)
             v2 == Last(pr.spectral_axis)
         IN  OverlapLoop(segs, i + 1,
                         IF Overlaps(v1, v2) THEN Append(acc, <<v1, v2>>) ELSE acc)

find_overlap_ranges(segs) == OverlapLoop(segs, 2, <<>>)

\* ---------------------------------------------------------------- interp1d
\* scipy interp1d(x, y, bounds_error=False, fill_value=nan), kind linear,
\* assume_sorted=False: x and y are sorted by x first; a new point outside
\* [x[0], x[-1]] gives NaN; inside, the bracket is found by searchsorted and
\* clipped to [1, len-1], and y = y_lo + slope * (x_new - x_lo).
interp1d(x, y, xnew) ==
    LET p  == SortPairs([i \in 1..Len(x) |-> <<x[i], y[i]>>])
        n  == Len(p)
        At(w) ==
            IF w < p[1][1] \/ w > p[n][1] THEN NaN
            ELSE LET below == Cardinality({i \in 1..n : p[i][1] < w})
                     hi    == IF below < 1 THEN 2
                              ELSE IF below > n - 1 THEN n ELSE below + 1
                     lo    == hi - 1
                     slope == RDiv(RSub(p[hi][2], p[lo][2]), R(p[hi][1] - p[lo][1]))
                 IN  RAdd(RMul(slope, R(w - p[lo][1])), p[lo][2])
    IN  [j \in 1..Len(xnew) |-> At(xnew[j])]

Rs(a) == [i \in 1..Len(a) |-> R(a[i])]

\* ------------------------------------------------- check_spectral_axis_index
\* Raises when the spectral axis is first (the only layout the merge
\* supports) and meta has a header: the shape, a tuple, is compared with
\* the list naxis321, and a tuple never equals a list.
check_spectral_axis_index(s3d) == IF s3d.header THEN "ValueError" ELSE "none"

\* ------------------------------------------------------ results of a merge
Raised(kind) ==
    [status |-> "error", error |-> kind, spectral_axis |-> <<>>,
     flux |-> <<>>, unc2 |-> <<>>, uncertainty |-> <<>>]

NotCalled == Raised("not called")

\* ------------------------------------------------------- merge_nd_memfriendly
\* grid building, lines 312-325
RECURSIVE GridLoopNd(_, _, _, _)
GridLoopNd(segs, ranges, k, new_spectral_axis) ==
    IF k > Len(ranges) THEN new_spectral_axis
    ELSE LET wmin == ranges[k][1]
             wmax == ranges[k][2]
             wavs_outside == SelectSeq(new_spectral_axis,
                                       LAMBDA w : (w < wmin) \/ (w > wmax))
             \* ileft is the position of the range in overlap_ranges
             left_wavs == segs[k].spectral_axis
             wavs_inside == SelectSeq(left_wavs,
                                      LAMBDA w : (w > wmin) /\ (w < wmax))
         IN  GridLoopNd(segs, ranges, k + 1, NpSort(wavs_outside \o wavs_inside))

GridNd(segs) ==
    GridLoopNd(segs, find_overlap_ranges(segs), 1,
               NpSort(Concat([i \in 1..Len(segs) |-> segs[i].spectral_axis])))

\* faulty variant of new_wav_mask: the segment's end points are left out
new_wav_mask_open(grid, s) ==
    [i \in 1..Len(grid) |->
        grid[i] > First(s.spectral_axis) /\ grid[i] < Last(s.spectral_axis)]

new_wav_mask(grid, s) ==
    [i \in 1..Len(grid) |->
        grid[i] >= First(s.spectral_axis) /\ grid[i] <= Last(s.spectral_axis)]

interp_f(grid, s, wmask) == interp1d(s.spectral_axis, Rs(s.flux), Take(grid, wmask))

interp_u2(grid, s, wmask) ==
    LET interp_u == interp1d(s.spectral_axis, Rs(s.uncertainty), Take(grid, wmask))
    IN  [i \in 1..Len(interp_u) |-> Square(interp_u[i])]

\* numpy broadcasting of two 1-D operands of lengths a and b
BroadcastOk(a, b) == a = b \/ a = 1 \/ b = 1

BroadcastLen(a, b) == IF a = 1 THEN b ELSE a

\* a spatial shape that can be assigned into a buffer of spatial shape `into`
ShapeFits(shp, into) == \A d \in 1..2 : shp[d] = into[d] \/ shp[d] = 1

\* x[slice(-N, None)]: the last N entries, and all of x when N = 0
last_N(x, N) == IF N = 0 THEN x
                ELSE SubSeq(x, (IF Len(x) - N < 0 THEN 0 ELSE Len(x) - N) + 1, Len(x))

\* x[slice(0, N)]
first_N(x, N) == SubSeq(x, 1, IF N < Len(x) THEN N ELSE Len(x))

\* (1 - sliding_weight) * left + sliding_weight * right, with broadcasting;
\* <<ok, values>>
Blend(sliding_weight, left, right) ==
    LET n  == Len(sliding_weight)
        ok == /\ BroadcastOk(n, Len(left))
              /\ BroadcastOk(n, Len(right))
              /\ BroadcastOk(BroadcastLen(n, Len(left)), BroadcastLen(n, Len(right)))
        m  == BroadcastLen(BroadcastLen(n, Len(left)), BroadcastLen(n, Len(right)))
        Ix(x, i) == x[IF Len(x) = 1 THEN 1 ELSE i]
    IN  <<ok,
          IF ok
          THEN [i \in 1..m |->
                  RAdd(RMul(RSub(R(1), Ix(sliding_weight, i)), Ix(left, i)),
                       RMul(Ix(sliding_weight, i), Ix(right, i)))]
          ELSE <<>>>>

\* one pass of the pairwise loop, lines 391-427; st carries the running
\* buffers and the arrays of the current left segment
PairStep(segs, grid, st, wmin, wmax) ==
    LET right       == segs[st.iright]
        wmask_right == new_wav_mask(grid, right)
        flux_right  == interp_f(grid, right, wmask_right)
        unc2_right  == interp_u2(grid, right, wmask_right)
        flux1       == Put(st.flux_merged, wmask_right, flux_right)
        unc21       == Put(st.unc2_merged, wmask_right, unc2_right)
        wmask_overlap == [i \in 1..Len(grid) |-> st.wmask_left[i] /\ wmask_right[i]]
        on_overlap  == Take(grid, wmask_overlap)
        sliding_weight == [j \in 1..Len(on_overlap) |->
                              RDiv(R(on_overlap[j] - wmin), R(wmax - wmin))]
        N_overlap   == Len(sliding_weight)
        bf == Blend(sliding_weight, last_N(st.flux_left, N_overlap),
                    first_N(flux_right, N_overlap))
        bu == Blend(sliding_weight, last_N(st.unc2_left, N_overlap),
                    first_N(unc2_right, N_overlap))
    IN  IF ~ShapeFits(right.shape, segs[1].shape)
        THEN [st EXCEPT !.error = "ValueError"]
        ELSE IF ~bf[1] \/ Len(bf[2]) # N_overlap
        THEN [st EXCEPT !.error = "ValueError"]
        ELSE [flux_merged |-> Put(flux1, wmask_overlap, bf[2]),
              unc2_merged |-> Put(unc21, wmask_overlap, bu[2]),
              wmask_left  |-> wmask_right,
              flux_left   |-> flux_right,
              unc2_left   |-> unc2_right,
              iright      |-> st.iright + 1,
              error       |-> "none"]

RECURSIVE PairLoop(_, _, _, _, _)
PairLoop(segs, grid, ranges, k, st) ==
    IF k > Len(ranges) \/ st.error # "none" THEN st
    ELSE PairLoop(segs, grid, ranges, k + 1,
                  PairStep(segs, grid, st, ranges[k][1], ranges[k][2]))

merge_nd_memfriendly(segs) ==
    IF Len(segs) = 0 THEN Raised("IndexError")
    ELSE IF check_spectral_axis_index(segs[1]) # "none"
    THEN Raised(check_spectral_axis_index(segs[1]))
    ELSE
    LET ranges == find_overlap_ranges(segs)
        new_spectral_axis == GridNd(segs)
        zeros == [i \in 1..Len(new_spectral_axis) |-> R(0)]
        wmask_left == new_wav_mask(new_spectral_axis, segs[1])
        flux_left  == interp_f(new_spectral_axis, segs[1], wmask_left)
        unc2_left  == interp_u2(new_spectral_axis, segs[1], wmask_left)
        st0 == [flux_merged |-> Put(zeros, wmask_left, flux_left),
                unc2_merged |-> Put(zeros, wmask_left, unc2_left),
                wmask_left  |-> wmask_left,
                flux_left   |-> flux_left,
                unc2_left   |-> unc2_left,
                iright      |-> 2,
                error       |-> "none"]
        st == PairLoop(segs, new_spectral_axis, ranges, 1, st0)
    IN  IF st.error # "none" THEN Raised(st.error)
        ELSE [status |-> "ok", error |-> "none",
              spectral_axis |-> new_spectral_axis,
              flux |-> st.flux_merged,
              unc2 |-> st.unc2_merged,
              uncertainty |-> [i \in 1..Len(new_spectral_axis) |->
                                  Sqrt(st.unc2_merged[i])]]

\* -------------------------------------------------------------------- merge_1d
\* grid building, lines 227-240
RECURSIVE GridLoop1d(_, _, _, _)
GridLoop1d(segs, ranges, k, new_spectral_axis) ==
    IF k > Len(ranges) THEN new_spectral_axis
    ELSE LET wmin == ranges[k][1]
             wmax == ranges[k][2]
             wavs_outside == SelectSeq(new_spectral_axis,
                                       LAMBDA w : (w < wmin) \/ (w > wmax))
             left_wavs == segs[k].spectral_axis
             wavs_inside == SelectSeq(left_wavs,
                                      LAMBDA w : (w > wmin) /\ (w < wmax))
         IN  GridLoop1d(segs, ranges, k + 1, NpSort(wavs_outside \o wavs_inside))

Grid1d(segs) ==
    GridLoop1d(segs, find_overlap_ranges(segs), 1,
               NpSort(Concat([i \in 1..Len(segs) |-> segs[i].spectral_axis])))

\* the finite entries of vals in ascending order
RECURSIVE RInsert(_, _)
RInsert(x, s) ==
    IF s = <<>> THEN <<x>>
    ELSE IF RLess(x, Head(s)) THEN <<x>> \o s
         ELSE <<Head(s)>> \o RInsert(x, Tail(s))

RECURSIVE RSortFinite(_)
RSortFinite(vals) ==
    IF vals = <<>> THEN <<>>
    ELSE IF IsNaN(Head(vals)) THEN RSortFinite(Tail(vals))
         ELSE RInsert(Head(vals), RSortFinite(Tail(vals)))

\* np.nanmedian of the values of one grid point
nanmedian(vals) ==
    LET f == RSortFinite(vals)
        n == Len(f)
    IN  IF n = 0 THEN NaN
        ELSE IF n % 2 = 1 THEN f[(n + 1) \div 2]
             ELSE RDiv(RAdd(f[n \div 2], f[n \div 2 + 1]), R(2))

RECURSIVE RSumFinite(_)
RSumFinite(vals) ==
    IF vals = <<>> THEN R(0)
    ELSE IF IsNaN(Head(vals)) THEN RSumFinite(Tail(vals))
         ELSE RAdd(Head(vals), RSumFinite(Tail(vals)))

\* the sliding merge of lines 264-273 over overlap_ranges
RECURSIVE BlendLoop1d(_, _, _, _, _)
BlendLoop1d(grid, flux_new, ranges, k, flux_merged) ==
    IF k > Len(ranges) THEN flux_merged
    ELSE LET wmin == ranges[k][1]
             wmax == ranges[k][2]
             f_left  == flux_new[k]
             f_right == flux_new[k + 1]
             overlap == [i \in 1..Len(grid) |-> grid[i] > wmin /\ grid[i] < wmax]
             blended == [i \in 1..Len(grid) |->
                 LET sliding_f == RDiv(R(grid[i] - wmin), R(wmax - wmin))
                 IN  RAdd(RMul(RSub(R(1), sliding_f), f_left[i]),
                          RMul(sliding_f, f_right[i]))]
         IN  BlendLoop1d(grid, flux_new, ranges, k + 1,
                 [i \in 1..Len(grid) |->
                     IF overlap[i] THEN blended[i] ELSE flux_merged[i]])

\* The returned uncertainty is sqrt(nansum(unc^2)) / count; unc2 holds
\* nansum(unc^2) / count^2, its square.
merge_1d(segs) ==
    IF Len(segs) = 0 THEN Raised("ValueError")
    ELSE
    LET overlap_rngs == find_overlap_ranges(segs)
        new_spectral_axis == Grid1d(segs)
        G == 1..Len(new_spectral_axis)
        flux_new == [j \in 1..Len(segs) |->
            interp1d(segs[j].spectral_axis, Rs(segs[j].flux), new_spectral_axis)]
        unc_new == [j \in 1..Len(segs) |->
            interp1d(segs[j].spectral_axis, Rs(segs[j].uncertainty), new_spectral_axis)]
        flux_median == [i \in G |->
            nanmedian([j \in 1..Len(segs) |-> flux_new[j][i]])]
        flux_merged == BlendLoop1d(new_spectral_axis, flux_new, overlap_rngs, 1,
                                   flux_median)
        sum2 == [i \in G |->
            RSumFinite([j \in 1..Len(segs) |-> Square(unc_new[j][i])])]
        cnt == [i \in G |->
            Cardinality({j \in 1..Len(segs) : ~IsNaN(unc_new[j][i])})]
        u2 == [i \in G |-> RDiv(sum2[i], R(cnt[i] * cnt[i]))]
    IN  [status |-> "ok", error |-> "none",
         spectral_axis |-> new_spectral_axis,
         flux |-> flux_merged,
         unc2 |-> u2,
         uncertainty |-> [i \in G |-> Sqrt(u2[i])]]

\* ------------------------------------------------------------ shifts_to_offsets
RECURSIVE cumsum(_)
cumsum(x) ==
    IF x = <<>> THEN <<>>
    ELSE LET c == cumsum(SubSeq(x, 1, Len(x) - 1))
         IN  Append(c, (IF c = <<>> THEN 0 ELSE Last(c)) + Last(x))

\* faulty variant of shifts_to_offsets: always anchored on the first segment
shifts_to_offsets_first(shfts, ref) ==
    LET cs == cumsum(shfts)
    IN  [i \in 1..(Len(shfts) + 1) |-> IF i = 1 THEN 0 ELSE cs[i - 1]]

\* reference_segment_index is 0-based as in the source
shifts_to_offsets(shfts, ref) ==
    LET full    == [i \in 1..(Len(shfts) + 1) |-> 0]
        cs      == cumsum(shfts)
        summed  == [i \in 1..(Len(shfts) + 1) |-> IF i = 1 THEN full[1] ELSE cs[i - 1]]
        anchor  == summed[ref + 1]
    IN  [i \in 1..(Len(shfts) + 1) |-> summed[i] - anchor]

\* ------------------------------------------------- extract_overlapping_data
\* np.take(a, m, axis) with a boolean array m: take reads m as indices, the
\* booleans are cast to the integers 0 and 1, so the result has one value per
\* sample of the segment: a[1] (0-based) where m holds and a[0] elsewhere.
\* Every axis of the model has at least two samples.
np_take(a, m) == [i \in 1..Len(m) |-> IF m[i] THEN a[2] ELSE a[1]]

\* the loop of lines 70-83 from position k of ranges on: the left and right
\* segments are ss[i] and ss[i + 1] with i the 0-based position of the range
RECURSIVE ExtractLoop(_, _, _)
ExtractLoop(segs, ranges, k) ==
    IF k > Len(ranges) THEN <<>>
    ELSE LET v1 == ranges[k][1]
             v2 == ranges[k][2]
             s_left  == segs[k]
             s_right == segs[k + 1]
             flux_left == np_take(s_left.flux,
                 [i \in 1..Len(s_left.spectral_axis) |->
                     s_left.spectral_axis[i] >= v1 /\ s_left.spectral_axis[i] <= v2])
             flux_right == np_take(s_right.flux,
                 [i \in 1..Len(s_right.spectral_axis) |->
                     s_right.spectral_axis[i] >= v1 /\ s_right.spectral_axis[i] <= v2])
         IN  <<(<<flux_left, flux_right>>)>> \o ExtractLoop(segs, ranges, k + 1)

extract_overlapping_data(segs) == ExtractLoop(segs, find_overlap_ranges(segs), 1)

\* ----------------------------------------------------------- overlap_ratios
\* np.var: the mean of the squared deviations from the mean
var(vals) ==
    IF Len(vals) = 0 THEN NaN
    ELSE LET n    == R(Len(vals))
             mean == RDiv(RSumFinite(vals), n)
         IN  RDiv(RSumFinite([i \in 1..Len(vals) |-> Square(RSub(vals[i], mean))]), n)

RatiosRaised(kind) ==
    [status |-> "error", error |-> kind, factors |-> <<>>,
     median_left |-> <<>>, median_right |-> <<>>, noise |-> <<>>]

\* the full output; factors alone is the plain output.  sqrt(x) / 2 is
\* computed as sqrt(x / 4).  ss[0] of an empty list raises IndexError.
overlap_ratios(segs) ==
    IF Len(segs) = 0 THEN RatiosRaised("IndexError")
    ELSE
    LET pairs == extract_overlapping_data(segs)
        K == 1..Len(pairs)
        med_left  == [k \in K |-> nanmedian(Rs(pairs[k][1]))]
        med_right == [k \in K |-> nanmedian(Rs(pairs[k][2]))]
    IN  [status |-> "ok", error |-> "none",
         factors |-> [k \in K |-> RDiv(med_left[k], med_right[k])],
         median_left |-> med_left,
         median_right |-> med_right,
         noise |-> [k \in K |->
             Sqrt(RDiv(RAdd(var(Rs(pairs[k][1])), var(Rs(pairs[k][2]))), R(4)))]]

\* ------------------------------------------------------------- state machine
ShiftVals == {-1, 0, 2}

\* segments outside the contract of the merge: axes in any order of distinct
\* wavelengths, differing spatial shapes, meta with or without a header
ErrAxes ==
    {a \in SeqsUpTo(1..MaxErrWav, MaxErrWav) :
        Len(a) >= 2 /\ \A i, j \in 1..Len(a) : i # j => a[i] # a[j]}

Shapes == {<<1, 1>>, <<1, 2>>}

ErrSegments == {MkSeg(a, shp, hdr) : a \in ErrAxes, shp \in Shapes, hdr \in BOOLEAN}

InitRest ==
    /\ pc = "start"
    /\ ss = <<>>
    /\ overlap_ranges = <<>>
    /\ result_nd = NotCalled
    /\ result_1d = NotCalled
    /\ offsets = <<>>
    /\ ratios = RatiosRaised("not called")

InitOffsets ==
    /\ call = "offsets"
    /\ input = <<>>
    /\ shifts \in SeqsUpTo(ShiftVals, MaxShifts)
    /\ reference_segment_index \in 0..Len(shifts)

InitMerge(Inputs) ==
    /\ call = "merge"
    /\ input \in Inputs
    /\ shifts = <<>>
    /\ reference_segment_index = 0

\* the caller hands the cubes over in wavelength order (the command line of
\* nirspec_wcs_calibrate_stitch asks for it) and sorts them again
Init ==
    /\ InitMerge(InputLists(Segments(MaxWav), MaxSegs, MaxSamples, TRUE)) \/ InitOffsets
    /\ InitRest

\* the segments arrive in any order
InitAnyOrder ==
    /\ InitMerge(InputLists(Segments(MaxOrdWav), MaxOrdSegs, MaxOrdSamples, FALSE))
       \/ InitOffsets
    /\ InitRest

InitErr ==
    /\ InitMerge(InputLists(ErrSegments, MaxErrSegs, MaxErrSamples, FALSE)) \/ InitOffsets
    /\ InitRest

Sort ==
    /\ call = "merge" /\ pc = "start"
    /\ ss' = sort(input)
    /\ pc' = "sorted"
    /\ UNCHANGED <<call, input, overlap_ranges, result_nd, result_1d,
                   shifts, reference_segment_index, offsets, ratios>>

FindOverlapRanges ==
    /\ pc = "sorted"
    /\ overlap_ranges' = find_overlap_ranges(ss)
    /\ pc' = "ranges"
    /\ UNCHANGED <<call, input, ss, result_nd, result_1d,
                   shifts, reference_segment_index, offsets, ratios>>

MergeNdMemfriendly ==
    /\ pc = "ranges"
    /\ result_nd' = merge_nd_memfriendly(ss)
    /\ pc' = "merged_nd"
    /\ UNCHANGED <<call, input, ss, overlap_ranges, result_1d,
                   shifts, reference_segment_index, offsets, ratios>>

Merge1d ==
    /\ pc = "merged_nd"
    /\ result_1d' = merge_1d(ss)
    /\ pc' = "done"
    /\ UNCHANGED <<call, input, ss, overlap_ranges, result_nd,
                   shifts, reference_segment_index, offsets, ratios>>

ShiftsToOffsets ==
    /\ call = "offsets" /\ pc = "start"
    /\ offsets' = shifts_to_offsets(shifts, reference_segment_index)
    /\ pc' = "done"
    /\ UNCHANGED <<call, input, ss, overlap_ranges, result_nd, result_1d,
                   shifts, reference_segment_index, ratios>>

\* the stitching factors of the sorted segments
OverlapRatios ==
    /\ pc = "sorted"
    /\ ratios' = overlap_ratios(ss)
    /\ pc' = "ratios"
    /\ UNCHANGED <<call, input, ss, overlap_ranges, result_nd, result_1d,
                   shifts, reference_segment_index, offsets>>

Next ==
    \/ Sort \/ FindOverlapRanges \/ MergeNdMemfriendly \/ Merge1d
    \/ ShiftsToOffsets \/ OverlapRatios

Spec == Init /\ [][Next]_vars

SpecAnyOrder == InitAnyOrder /\ [][Next]_vars

SpecErr == InitErr /\ [][Next]_vars

\* ------------------------------------------------------------------ properties
Merged == pc \in {"merged_nd", "done"}

Returned(r) == r.status = "ok"

N == Len(ss)

Lo(s) == First(s.spectral_axis)

Hi(s) == Last(s.spectral_axis)

Covers(s, w) == Lo(s) <= w /\ w <= Hi(s)

\* value of the segment's linear interpolation at wavelength w
FluxAt(s, w) == interp1d(s.spectral_axis, Rs(s.flux), <<w>>)[1]

UncAt(s, w) == interp1d(s.spectral_axis, Rs(s.uncertainty), <<w>>)[1]

\* left-segment positions of the consecutive pairs that overlap, in order
OverlappingPairs(segs) ==
    SelectSeq([i \in 1..(Len(segs) - 1) |-> i],
              LAMBDA i : Hi(segs[i]) > Lo(segs[i + 1]))

\* each segment overlaps only its immediate neighbours
OnlyNeighbours(segs) ==
    \A i, j \in 1..Len(segs) : j > i + 1 => Hi(segs[i]) <= Lo(segs[j])

\* C1: the unified wavelength axis built by merge_nd_memfriendly and by
\* merge_1d on sorted segments with strictly ascending axes (touching and
\* separated segments included) is strictly ascending, without duplicates.
C1_AxisStrictlyAscending ==
    pc = "done" /\ call = "merge" =>
        /\ Returned(result_nd) => StrictlyAscending(result_nd.spectral_axis)
        /\ Returned(result_1d) => StrictlyAscending(result_1d.spectral_axis)

\* C2: for every overlap range (wmin, wmax) of two adjacent sorted segments
\* the spectrum returned by merge_nd_memfriendly has a grid point at wmin
\* with the left segment's flux at wmin and a grid point at wmax with the
\* right segment's flux at wmax.
C2_BoundaryPoints ==
    Merged /\ Returned(result_nd) =>
        \A k \in 1..Len(OverlappingPairs(ss)) :
            LET l    == OverlappingPairs(ss)[k]
                wmin == Lo(ss[l + 1])
                wmax == Hi(ss[l])
                G    == 1..Len(result_nd.spectral_axis)
            IN  /\ \E i \in G : /\ result_nd.spectral_axis[i] = wmin
                                 /\ result_nd.flux[i] = FluxAt(ss[l], wmin)
                /\ \E i \in G : /\ result_nd.spectral_axis[i] = wmax
                                 /\ result_nd.flux[i] = FluxAt(ss[l + 1], wmax)

\* C3: on sorted segments that overlap only their immediate neighbours,
\* merge_nd_memfriendly completes without error, and every grid point w
\* covered by both segments of an overlap range (wmin, wmax) gets flux
\* (1-t)*L(w) + t*R(w) and squared uncertainty (1-t)*uL(w)^2 + t*uR(w)^2
\* with t = (w-wmin)/(wmax-wmin), L, R, uL, uR taken at that same w.
C3_BlendAtSamePoint ==
    Merged /\ N >= 1 /\ OnlyNeighbours(ss) =>
        /\ Returned(result_nd)
        /\ \A k \in 1..Len(OverlappingPairs(ss)) :
            LET l    == OverlappingPairs(ss)[k]
                wmin == Lo(ss[l + 1])
                wmax == Hi(ss[l])
            IN  \A i \in 1..Len(result_nd.spectral_axis) :
                  LET w == result_nd.spectral_axis[i]
                      t == RDiv(R(w - wmin), R(wmax - wmin))
                  IN  Covers(ss[l], w) /\ Covers(ss[l + 1], w) =>
                        /\ result_nd.flux[i] =
                              RAdd(RMul(RSub(R(1), t), FluxAt(ss[l], w)),
                                   RMul(t, FluxAt(ss[l + 1], w)))
                        /\ result_nd.unc2[i] =
                              RAdd(RMul(RSub(R(1), t), Square(UncAt(ss[l], w))),
                                   RMul(t, Square(UncAt(ss[l + 1], w))))

\* C4: every grid point of the spectrum returned by merge_nd_memfriendly
\* that lies in the native wavelength range of exactly one segment has that
\* segment's flux and uncertainty at that wavelength, for every segment
\* index, segments after a gap included.
C4_SingleCoverageUnmodified ==
    Merged /\ Returned(result_nd) =>
        \A i \in 1..Len(result_nd.spectral_axis) : \A j \in 1..N :
            LET w == result_nd.spectral_axis[i]
            IN  (\A m \in 1..N : Covers(ss[m], w) <=> m = j) =>
                    /\ result_nd.flux[i] = FluxAt(ss[j], w)
                    /\ result_nd.uncertainty[i] = UncAt(ss[j], w)

\* the input list taken in the order given by the permutation f
Reordered(f) == [i \in 1..Len(input) |-> input[f[i]]]

DistinctStarts(segs) ==
    \A i, j \in 1..Len(segs) : i # j => Lo(segs[i]) # Lo(segs[j])

\* C5 (as stated): the same segments fed in any input order to sort and
\* merge_nd_memfriendly give an identical result (axis, flux, uncertainty),
\* also when two segments start at the same lowest wavelength.
C5_AnyOrderSameResult ==
    pc = "merged_nd" =>
        \A f \in Permutations(1..Len(input)) :
            merge_nd_memfriendly(sort(Reordered(f))) = result_nd

\* C5 (amended): the same segments fed in any input order to sort and
\* merge_nd_memfriendly give an identical result whenever the segments'
\* first wavelengths are pairwise distinct.
C5_AnyOrderSameResultDistinctStarts ==
    pc = "merged_nd" /\ DistinctStarts(input) =>
        \A f \in Permutations(1..Len(input)) :
            merge_nd_memfriendly(sort(Reordered(f))) = result_nd

C5_Witness ==
    /\ pc = "merged_nd" /\ Len(input) = 2
    /\ Lo(input[1]) > Lo(input[2])
    /\ Returned(result_nd)
    /\ Len(overlap_ranges) = 1
    /\ \E i \in 1..Len(result_nd.spectral_axis) :
          /\ Covers(ss[1], result_nd.spectral_axis[i])
          /\ Covers(ss[2], result_nd.spectral_axis[i])

C7_OverlapRanges ==
    pc \in {"ranges", "merged_nd", "done"} /\ call = "merge" =>
        LET pairs == OverlappingPairs(ss)
        IN  /\ Len(overlap_ranges) = Len(pairs)
            /\ \A k \in 1..Len(pairs) :
                  /\ overlap_ranges[k] = <<Lo(ss[pairs[k] + 1]), Hi(ss[pairs[k]])>>
                  /\ overlap_ranges[k][1] < overlap_ranges[k][2]
                  /\ overlap_ranges[k][2] - overlap_ranges[k][1] # 0

C7_Witness ==
    /\ pc = "ranges" /\ N = 3
    /\ Hi(ss[1]) = Lo(ss[2])
    /\ Hi(ss[2]) > Lo(ss[3])
    /\ Len(overlap_ranges) = 1

\* C8: shifts_to_offsets maps N-1 shifts to N offsets with the offset of
\* the reference segment exactly zero and offsets[i+1] - offsets[i] =
\* shifts[i] for every i, for every reference index in 0..N-1.
C8_OffsetsFromShifts ==
    pc = "done" /\ call = "offsets" =>
        /\ Len(offsets) = Len(shifts) + 1
        /\ offsets[reference_segment_index + 1] = 0
        /\ \A i \in 1..Len(shifts) : offsets[i + 1] - offsets[i] = shifts[i]

C8_Witness ==
    /\ pc = "done" /\ call = "offsets"
    /\ Len(shifts) = 3 /\ reference_segment_index = 2
    /\ shifts[1] # 0 /\ shifts[2] # 0 /\ shifts[1] + shifts[2] # 0
    /\ Len(offsets) = 4

\* C9: for any sorted list of single-pixel segments merge_nd_memfriendly
\* and merge_1d return the same unified grid and the same flux at every
\* grid point (gaps between consecutive segments and overlaps without a
\* grid point included).
C9_NdEquals1d ==
    pc = "done" /\ call = "merge" /\ Returned(result_nd) /\ Returned(result_1d) =>
        /\ result_nd.spectral_axis = result_1d.spectral_axis
        /\ result_nd.flux = result_1d.flux

\* the error conditions of a merge call
EmptyInput == Len(input) = 0

ShapeMismatch == \E i, j \in 1..Len(input) : input[i].shape # input[j].shape

NonMonotonicAxis == \E i \in 1..Len(input) : ~StrictlyAscending(input[i].spectral_axis)

\* C10: a call to sort + merge_nd_memfriendly whose input has no segments,
\* disagreeing spatial shapes or a wavelength axis that is not strictly
\* ascending aborts with an error and returns no merged output.
C10_ErrorConditionsAbort ==
    Merged /\ (EmptyInput \/ ShapeMismatch \/ NonMonotonicAxis) =>
        ~Returned(result_nd)

\* the grid of merge_nd_memfriendly / merge_1d after the first k passes of
\* the grid-building loop
GridAfterNd(segs, k) ==
    GridLoopNd(segs, SubSeq(find_overlap_ranges(segs), 1, k), 1,
               NpSort(Concat([i \in 1..Len(segs) |-> segs[i].spectral_axis])))

GridAfter1d(segs, k) ==
    GridLoop1d(segs, SubSeq(find_overlap_ranges(segs), 1, k), 1,
               NpSort(Concat([i \in 1..Len(segs) |-> segs[i].spectral_axis])))

\* the entries of the ascending sequence a strictly inside (wmin, wmax)
StrictlyInside(a, wmin, wmax) == SelectSeq(a, LAMBDA w : w > wmin /\ w < wmax)

\* C11: after the grid-building loop of merge_nd_memfriendly / merge_1d on
\* sorted segments that overlap only their immediate neighbours (gaps
\* allowed), for every overlap range (wmin, wmax) of segments i and i+1 the
\* grid points strictly inside (wmin, wmax) are exactly segment i's native
\* samples strictly inside it, and a later pass of the loop does not change
\* the points inside an earlier range.
C11_LeftSamplesInsideOverlap ==
    pc = "done" /\ call = "merge" /\ OnlyNeighbours(ss) =>
        \A k \in 1..Len(OverlappingPairs(ss)) :
            LET l    == OverlappingPairs(ss)[k]
                wmin == Lo(ss[l + 1])
                wmax == Hi(ss[l])
                left == StrictlyInside(ss[l].spectral_axis, wmin, wmax)
            IN  /\ StrictlyInside(result_1d.spectral_axis, wmin, wmax) = left
                /\ StrictlyInside(GridNd(ss), wmin, wmax) = left
                /\ \A k2 \in k..Len(overlap_ranges) :
                      /\ StrictlyInside(GridAfterNd(ss, k2), wmin, wmax)
                            = StrictlyInside(GridAfterNd(ss, k), wmin, wmax)
                      /\ StrictlyInside(GridAfter1d(ss, k2), wmin, wmax)
                            = StrictlyInside(GridAfter1d(ss, k), wmin, wmax)

\* the part of C11 that does not depend on which segment is taken as left:
\* a later pass leaves the points inside an earlier range alone
C11_LaterPassKeepsEarlierRange ==
    pc = "done" /\ call = "merge" /\ OnlyNeighbours(ss) =>
        \A k \in 1..Len(overlap_ranges) : \A k2 \in k..Len(overlap_ranges) :
            StrictlyInside(GridAfterNd(ss, k2), overlap_ranges[k][1], overlap_ranges[k][2])
              = StrictlyInside(GridAfterNd(ss, k), overlap_ranges[k][1], overlap_ranges[k][2])

\* flux samples of segment s with wavelength in [v1, v2]
FluxWithin(s, v1, v2) ==
    Take(s.flux, [i \in 1..Len(s.spectral_axis) |->
        s.spectral_axis[i] >= v1 /\ s.spectral_axis[i] <= v2])

\* C12: extract_overlapping_data, and overlap_ratios built on it, return one
\* entry per overlap range in order of occurrence; the entry of the range
\* formed by the consecutive sorted segments l and l + 1 is computed from the
\* samples of segment l (left) and of segment l + 1 (right) with wavelength
\* in [v1, v2], and its factor is the ratio of their medians, also when an
\* earlier consecutive pair has no overlap.
C12_EntryFromOverlappingPair ==
    pc = "ratios" /\ ratios.status = "ok" =>
        LET pairs == extract_overlapping_data(ss)
            ranges == find_overlap_ranges(ss)
        IN  /\ Len(pairs) = Len(OverlappingPairs(ss))
            /\ Len(ratios.factors) = Len(OverlappingPairs(ss))
            /\ \A k \in 1..Len(OverlappingPairs(ss)) :
                   LET l == OverlappingPairs(ss)[k]
                       left  == FluxWithin(ss[l], ranges[k][1], ranges[k][2])
                       right == FluxWithin(ss[l + 1], ranges[k][1], ranges[k][2])
                   IN  /\ pairs[k] = <<left, right>>
                       /\ ratios.factors[k]
                            = RDiv(nanmedian(Rs(left)), nanmedian(Rs(right)))

\* the part of C12 that holds: one entry per overlap range, in order
C12_OneEntryPerRange ==
    pc = "ratios" /\ ratios.status = "ok" =>
        /\ Len(extract_overlapping_data(ss)) = Len(find_overlap_ranges(ss))
        /\ Len(ratios.factors) = Len(find_overlap_ranges(ss))
        /\ Len(ratios.noise) = Len(find_overlap_ranges(ss))

====
